---- MODULE Spec2Model ----
(***************************************************************************)
(* Model of src/src/App.jsx: the dashboard component that fetches a CSV    *)
(* resource, parses it once, and derives the filtered subset, the summary  *)
(* statistics, the per-region averages and the filter option lists from    *)
(* the component state (data, loading, filters).                           *)
(*                                                                         *)
(* A JavaScript string is a sequence of one-character strings.  A          *)
(* JavaScript value is a record [t, n, d, s]: t is the kind of value, n/d  *)
(* the (reduced) rational a number stands for, s the characters of a       *)
(* string.  Numbers are exact rationals instead of IEEE doubles; the       *)
(* modelled inputs are small naturals, where sums are exact in both.       *)
(***************************************************************************)
EXTENDS Integers, Sequences, FiniteSets

\* Number of data lines that follow the header line of the CSV resource.
MaxRows == 3

-----------------------------------------------------------------------------
(* Characters and strings *)

\* The characters of the modelled texts, in ascending UTF-16 code unit order.
CodeOrder ==
  << "\n", " ", ",",
     "0", "1", "2", "3", "4", "5", "6", "7", "8", "9",
     "A", "B", "C", "D", "E", "F", "G", "H", "I", "J", "K", "L", "M",
     "N", "O", "P", "Q", "R", "S", "T", "U", "V", "W", "X", "Y", "Z",
     "a", "b", "c", "d", "e", "f", "g", "h", "i", "j", "k", "l", "m",
     "n", "o", "p", "q", "r", "s", "t", "u", "v", "w", "x", "y", "z" >>

CodeOf ==
  [c \in {CodeOrder[i] : i \in 1..Len(CodeOrder)} |->
     CHOOSE i \in 1..Len(CodeOrder) : CodeOrder[i] = c]

CharCode(c) == CodeOf[c]

Digits == <<"0", "1", "2", "3", "4", "5", "6", "7", "8", "9">>

IsDigit(c) == CharCode(c) >= CharCode("0") /\ CharCode(c) <= CharCode("9")

DigitValue(c) == CharCode(c) - CharCode("0")

WhiteSpace == {" ", "\n"}

\* c.toUpperCase() for one character
ToUpperCase(c) ==
  LET i == CharCode(c)
  IN  IF i >= CharCode("a") /\ i <= CharCode("z")
        THEN CodeOrder[i - (CharCode("a") - CharCode("A"))]
        ELSE c

RECURSIVE TrimStart(_)
TrimStart(s) ==
  IF s # <<>> /\ Head(s) \in WhiteSpace THEN TrimStart(Tail(s)) ELSE s

RECURSIVE TrimEnd(_)
TrimEnd(s) ==
  IF s # <<>> /\ s[Len(s)] \in WhiteSpace
    THEN TrimEnd(SubSeq(s, 1, Len(s) - 1))
    ELSE s

\* String.prototype.trim
Trim(s) == TrimEnd(TrimStart(s))

\* String.prototype.split(sep) for a one-character separator: the pieces
\* between the separators, always at least one piece.
Split(s, sep) ==
  LET at     == {i \in 1..Len(s) : s[i] = sep}
      n      == Cardinality(at)
      nth(k) == CHOOSE i \in at : Cardinality({j \in at : j < i}) = k - 1
  IN  [k \in 1..(n + 1) |->
         SubSeq(s, IF k = 1 THEN 1 ELSE nth(k - 1) + 1,
                   IF k = n + 1 THEN Len(s) ELSE nth(k) - 1)]

\* Comparison of two strings by UTF-16 code units, as the default
\* comparator of Array.prototype.sort does: TRUE iff a sorts before b.
RECURSIVE StrLess(_, _)
StrLess(a, b) ==
  IF b = <<>> THEN FALSE
  ELSE IF a = <<>> THEN TRUE
  ELSE IF Head(a) # Head(b) THEN CharCode(Head(a)) < CharCode(Head(b))
  ELSE StrLess(Tail(a), Tail(b))

-----------------------------------------------------------------------------
(* JavaScript values *)

RECURSIVE Gcd(_, _)
Gcd(a, b) == IF b = 0 THEN a ELSE Gcd(b, a % b)

Undefined == [t |-> "undefined", n |-> 0, d |-> 1, s |-> <<>>]
NaN       == [t |-> "NaN",       n |-> 0, d |-> 1, s |-> <<>>]
Infinity  == [t |-> "Infinity",  n |-> 0, d |-> 1, s |-> <<>>]
Str(s)    == [t |-> "string",    n |-> 0, d |-> 1, s |-> s]
\* the number a/b, for naturals a and b > 0
Ratio(a, b) ==
  LET g == Gcd(a, b) IN [t |-> "number", n |-> a \div g, d |-> b \div g, s |-> <<>>]
Num(a)    == Ratio(a, 1)

IsString(v) == v.t = "string"

\* ToBoolean
Truthy(v) ==
  CASE v.t = "undefined" -> FALSE
    [] v.t = "NaN"       -> FALSE
    [] v.t = "string"    -> v.s # <<>>
    [] v.t = "number"    -> v.n # 0
    [] OTHER             -> TRUE

\* a === b
StrictEq(a, b) == a.t # "NaN" /\ a = b

\* A string of decimal digits only.  The modelled texts hold no sign, point,
\* exponent or radix prefix, so these are their only numeric literals.
IsDigits(s) == s # <<>> /\ \A i \in 1..Len(s) : IsDigit(s[i])

RECURSIVE DigitsValue(_)
DigitsValue(s) ==
  IF s = <<>> THEN 0 ELSE 10 * DigitsValue(SubSeq(s, 1, Len(s) - 1)) + DigitValue(s[Len(s)])

RECURSIVE NatToString(_)
NatToString(k) ==
  IF k < 10 THEN <<Digits[k + 1]>> ELSE NatToString(k \div 10) \o <<Digits[(k % 10) + 1]>>

\* ToNumber of a string: surrounding white space is ignored, the empty
\* string is 0, anything that is no numeric literal is NaN.
StringToNumber(s) ==
  LET u == Trim(s)
  IN  IF u = <<>> THEN Num(0) ELSE IF IsDigits(u) THEN Num(DigitsValue(u)) ELSE NaN

ToNumber(v) ==
  CASE v.t = "string"    -> StringToNumber(v.s)
    [] v.t = "undefined" -> NaN
    [] OTHER             -> v

\* ToString of a value; the numbers converted here are naturals.
JSToString(v) ==
  CASE v.t = "string"    -> v.s
    [] v.t = "undefined" -> <<"u", "n", "d", "e", "f", "i", "n", "e", "d">>
    [] v.t = "NaN"       -> <<"N", "a", "N">>
    [] v.t = "Infinity"  -> <<"I", "n", "f", "i", "n", "i", "t", "y">>
    [] OTHER             -> NatToString(v.n \div v.d)

\* a + b: concatenation when either operand is a string, else addition
Plus(a, b) ==
  IF IsString(a) \/ IsString(b) THEN Str(JSToString(a) \o JSToString(b))
  ELSE LET x == ToNumber(a)
           y == ToNumber(b)
       IN  IF x.t = "NaN" \/ y.t = "NaN" THEN NaN
           ELSE IF x.t = "Infinity" \/ y.t = "Infinity" THEN Infinity
           ELSE Ratio(x.n * y.d + y.n * x.d, x.d * y.d)

\* a / b for non-negative operands
Divide(a, b) ==
  LET x == ToNumber(a)
      y == ToNumber(b)
  IN  IF x.t = "NaN" \/ y.t = "NaN" THEN NaN
      ELSE IF x.t = "Infinity" THEN (IF y.t = "Infinity" THEN NaN ELSE Infinity)
      ELSE IF y.t = "Infinity" THEN Num(0)
      ELSE IF y.n = 0 THEN (IF x.n = 0 THEN NaN ELSE Infinity)
      ELSE Ratio(x.n * y.d, x.d * y.n)

\* a * b for non-negative operands
Times(a, b) ==
  LET x == ToNumber(a)
      y == ToNumber(b)
  IN  IF x.t = "NaN" \/ y.t = "NaN" THEN NaN
      ELSE IF x.t = "Infinity" \/ y.t = "Infinity"
        THEN (IF (x.t = "number" /\ x.n = 0) \/ (y.t = "number" /\ y.n = 0) THEN NaN ELSE Infinity)
      ELSE Ratio(x.n * y.n, x.d * y.d)

-----------------------------------------------------------------------------
(* Property names and literals of the component *)

cRegion  == <<"r", "e", "g", "i", "o", "n">>
cSmoker  == <<"s", "m", "o", "k", "e", "r">>
cSex     == <<"s", "e", "x">>
cCharges == <<"c", "h", "a", "r", "g", "e", "s">>
cAll     == <<"a", "l", "l">>
cYes     == <<"y", "e", "s">>

\* The keys handleFilterChange is called with by the three select controls.
FilterKeys == {"region", "smoker", "sex"}

\* The record property each filter key names.
Column(key) ==
  CASE key = "region" -> cRegion
    [] key = "smoker" -> cSmoker
    [] key = "sex"    -> cSex

\* item.<name>: the value of an own property, undefined when there is none.
Get(item, name) == IF name \in DOMAIN item THEN item[name] ELSE Undefined

-----------------------------------------------------------------------------
(* The CSV resource *)

cNo     == <<"n", "o">>
cMale   == <<"m", "a", "l", "e">>
cFemale == <<"f", "e", "m", "a", "l", "e">>
cWest   == <<"w", "e", "s", "t">>
cEast   == <<"e", "a", "s", "t">>
cConstructor == <<"c", "o", "n", "s", "t", "r", "u", "c", "t", "o", "r">>

\* Documents the resource /medical-charges.csv may hold: the white space
\* before the header line, the cells of the header line, and the white
\* space after the last line.
Frames ==
  { [lead |-> <<"\n", " ">>,
     header |-> <<cRegion \o <<" ">>, <<" ">> \o cSmoker, cSex, <<" ">> \o cCharges>>,
     trail |-> <<" ", "\n", "\n">>],
    [lead |-> <<>>, header |-> <<cCharges, cSmoker, cRegion>>, trail |-> <<>>] }

\* Lines that may follow the header, each as its comma-separated cells:
\* well-formed rows, a row with padded cells and one field too many, a
\* short row, a blank line, and a row with a numeric first cell, an empty
\* cell and a non-numeric last cell.
RowChoices ==
  { <<cWest, cYes, cFemale, <<"1", "0">>>>,
    <<cEast, cNo, cMale, <<"4">>>>,
    <<<<" ">> \o cEast, cNo \o <<" ">>, <<" ">> \o cMale, <<" ", "6">>, <<"9">>>>,
    <<cAll, cYes>>,
    <<<<" ">>>>,
    <<<<"5">>, <<"1">>, <<>>, <<"x">>>>,
    <<cConstructor, cNo, cMale, <<"3">>>> }

RECURSIVE Join(_, _)
Join(parts, sep) ==
  IF parts = <<>> THEN <<>>
  ELSE IF Len(parts) = 1 THEN parts[1]
  ELSE parts[1] \o <<sep>> \o Join(Tail(parts), sep)

\* The text of the resource: its lines joined by line feeds.
Text(doc) ==
  doc.lead
    \o Join(<<Join(doc.header, ",")>> \o [i \in 1..Len(doc.rows) |-> Join(doc.rows[i], ",")], "\n")
    \o doc.trail

RECURSIVE SeqsUpTo(_, _)
SeqsUpTo(S, k) ==
  IF k = 0 THEN {<<>>}
  ELSE LET shorter == SeqsUpTo(S, k - 1)
       IN  shorter \cup {Append(q, x) : q \in shorter, x \in S}

\* The document without any character: no header line and no rows.
EmptyDocument == [lead |-> <<>>, header |-> <<<<>>>>, rows |-> <<>>, trail |-> <<>>]

Documents ==
  { [lead |-> f.lead, header |-> f.header, rows |-> r, trail |-> f.trail] :
      f \in Frames, r \in SeqsUpTo(RowChoices, MaxRows) }
    \cup {EmptyDocument}

-----------------------------------------------------------------------------
(* Parser: the second then-callback of the effect *)

\* parseFloat of a string that starts with digits: the value of its
\* longest prefix of digits.
RECURSIVE DigitPrefix(_)
DigitPrefix(s) ==
  IF s # <<>> /\ IsDigit(Head(s)) THEN <<Head(s)>> \o DigitPrefix(Tail(s)) ELSE <<>>

ParseFloat(s) ==
  LET p == DigitPrefix(TrimStart(s)) IN IF p = <<>> THEN NaN ELSE Num(DigitsValue(p))

\* isNaN(v)
IsNaN(v) == ToNumber(v).t = "NaN"

\* values[i]?.trim(), then the coercion to a number
Cell(values, i) ==
  LET val == IF i <= Len(values) THEN Str(Trim(values[i])) ELSE Undefined
  IN  IF Truthy(val) /\ ~IsNaN(val) THEN ParseFloat(val.s) ELSE val

\* The entry built from one line; a later header of the same name
\* overwrites an earlier one.
Entry(headers, line) ==
  LET values == Split(line, ",")
      names  == {headers[i] : i \in 1..Len(headers)}
      last(h) == CHOOSE i \in 1..Len(headers) :
                   headers[i] = h /\ \A j \in (i + 1)..Len(headers) : headers[j] # h
  IN  [h \in names |-> Cell(values, last(h))]

\* a blank test that forgets to trim the line
IsBlankUntrimmed(line) == line = <<>>

\* !line.trim()
IsBlank(line) == Trim(line) = <<>>

RECURSIVE KeepLines(_)
KeepLines(lines) ==
  IF lines = <<>> THEN <<>>
  ELSE IF IsBlank(Head(lines)) THEN KeepLines(Tail(lines))
  ELSE <<Head(lines)>> \o KeepLines(Tail(lines))

Parse(text) ==
  LET lines   == Split(Trim(text), "\n")
      cells   == Split(lines[1], ",")
      headers == [i \in 1..Len(cells) |-> Trim(cells[i])]
      kept    == KeepLines(Tail(lines))
  IN  [i \in 1..Len(kept) |-> Entry(headers, kept[i])]

-----------------------------------------------------------------------------
(* Derived values: the useMemo computations of a render *)

\* a filter predicate that forgets the sex dimension
PassesWithoutSex(item, f) ==
  /\ (StrictEq(f.region, Str(cAll)) \/ StrictEq(Get(item, cRegion), f.region))
  /\ (StrictEq(f.smoker, Str(cAll)) \/ StrictEq(Get(item, cSmoker), f.smoker))

\* the callback of data.filter
Passes(item, f) ==
  /\ (StrictEq(f.region, Str(cAll)) \/ StrictEq(Get(item, cRegion), f.region))
  /\ (StrictEq(f.smoker, Str(cAll)) \/ StrictEq(Get(item, cSmoker), f.smoker))
  /\ (StrictEq(f.sex, Str(cAll)) \/ StrictEq(Get(item, cSex), f.sex))

FilteredData(d, f) ==
  LET Test(item) == Passes(item, f) IN SelectSeq(d, Test)

\* reduce((sum, item) => sum + item.<name>, start)
RECURSIVE SumOf(_, _, _)
SumOf(items, name, start) ==
  IF items = <<>> THEN start
  ELSE SumOf(Tail(items), name, Plus(start, Get(Head(items), name)))

\* stats without the early return for the empty subset
StatsUnguarded(fd) ==
  LET totalCharges == SumOf(fd, cCharges, Num(0))
      IsSmoker(item) == StrictEq(Get(item, cSmoker), Str(cYes))
      smokerCount == Len(SelectSeq(fd, IsSmoker))
  IN  [count     |-> Num(Len(fd)),
       avgCharge |-> Divide(totalCharges, Num(Len(fd))),
       smokerPct |-> Times(Divide(Num(smokerCount), Num(Len(fd))), Num(100))]

Stats(fd) ==
  IF Len(fd) = 0 THEN [count |-> Num(0), avgCharge |-> Num(0), smokerPct |-> Num(0)]
  ELSE LET totalCharges == SumOf(fd, cCharges, Num(0))
           IsSmoker(item) == StrictEq(Get(item, cSmoker), Str(cYes))
           smokers == Len(SelectSeq(fd, IsSmoker))
       IN  [count     |-> Num(Len(fd)),
            avgCharge |-> Divide(totalCharges, Num(Len(fd))),
            smokerPct |-> Times(Divide(Num(smokers), Num(Len(fd))), Num(100))]

\* Some of the property names an object literal inherits from
\* Object.prototype: a lookup groups[key] of one of them finds the
\* inherited (truthy) member.
ObjectPrototypeKeys ==
  { cConstructor,
    <<"t", "o", "S", "t", "r", "i", "n", "g">>,
    <<"v", "a", "l", "u", "e", "O", "f">> }

IndexOfKey(groups, key) ==
  IF \E i \in 1..Len(groups) : groups[i].key = key
    THEN CHOOSE i \in 1..Len(groups) : groups[i].key = key
    ELSE 0

\* The forEach of regionData: groups holds the own properties of the
\* groups object in insertion order.  An item whose key is inherited adds
\* to the inherited member and leaves groups without an own property.
RECURSIVE GroupBy(_, _)
GroupBy(items, groups) ==
  IF items = <<>> THEN groups
  ELSE LET item == Head(items)
           r    == Get(item, cRegion)
           key  == JSToString(r)
           at   == IndexOfKey(groups, key)
       IN  IF at = 0 /\ key \in ObjectPrototypeKeys THEN GroupBy(Tail(items), groups)
           ELSE LET made == IF at = 0
                              THEN Append(groups, [key |-> key, region |-> r,
                                                   total |-> Num(0), count |-> Num(0)])
                              ELSE groups
                    k    == IF at = 0 THEN Len(made) ELSE at
                IN  GroupBy(Tail(items),
                            [made EXCEPT ![k].total = Plus(@, Get(item, cCharges)),
                                         ![k].count = Plus(@, Num(1))])

\* s.charAt(0).toUpperCase() + s.slice(1)
Capitalize(s) == IF s = <<>> THEN <<>> ELSE <<ToUpperCase(Head(s))>> \o Tail(s)

\* regionData: threw is TRUE when g.region.charAt raises a TypeError, which
\* it does for a group whose region is no string.  The keys of the groups
\* that do not raise are no array indices, so Object.values lists them in
\* insertion order.
RegionData(fd) ==
  LET groups == GroupBy(fd, <<>>)
  IN  IF \E i \in 1..Len(groups) : ~IsString(groups[i].region)
        THEN [threw |-> TRUE, entries |-> <<>>]
        ELSE [threw |-> FALSE,
              entries |-> [i \in 1..Len(groups) |->
                             [name      |-> Capitalize(groups[i].region.s),
                              avgCharge |-> Divide(groups[i].total, groups[i].count)]]]

\* Array.prototype.sort with the default comparator: a stable sort by the
\* code units of the string forms.
RECURSIVE InsertSorted(_, _)
InsertSorted(sorted, v) ==
  IF sorted = <<>> THEN <<v>>
  ELSE IF StrLess(JSToString(v), JSToString(Head(sorted))) THEN <<v>> \o sorted
  ELSE <<Head(sorted)>> \o InsertSorted(Tail(sorted), v)

RECURSIVE Sort(_)
Sort(s) == IF s = <<>> THEN <<>> ELSE InsertSorted(Sort(SubSeq(s, 1, Len(s) - 1)), s[Len(s)])

\* [...new Set(s)]: the first occurrence of every value, in order
RECURSIVE Distinct(_)
Distinct(s) ==
  IF s = <<>> THEN <<>>
  ELSE LET rest == Distinct(SubSeq(s, 1, Len(s) - 1))
           v    == s[Len(s)]
       IN  IF \E i \in 1..Len(rest) : rest[i] = v THEN rest ELSE Append(rest, v)

\* regions, smokers and sexes: the option list of one column
Options(d, name) ==
  LET column == [i \in 1..Len(d) |-> Get(d[i], name)]
  IN  <<Str(cAll)>> \o Distinct(Sort(SelectSeq(column, Truthy)))

\* The option labels of the region and sex controls call r.charAt, which
\* raises a TypeError for an option that is a number.
OptionLabelsThrow(d) ==
  \E name \in {cRegion, cSex} :
    LET options == Options(d, name)
    IN  \E i \in 1..Len(options) : ~IsString(options[i])

\* A render raises when one of its computations does.
RenderThrows(d, f) == RegionData(FilteredData(d, f)).threw \/ OptionLabelsThrow(d)

-----------------------------------------------------------------------------
(* The component *)

VARIABLES
  resource,   \* the document served at /medical-charges.csv
  fetch,      \* the promise chain of the effect: "pending", "fulfilled", "rejected"
  data,       \* useState([])
  loading,    \* useState(true)
  filters,    \* useState({region: 'all', smoker: 'all', sex: 'all'})
  parses,     \* number of times the parser has run and setData was called
  errors,     \* number of console.error calls of the catch handler
  unmounted   \* TRUE once a render raised and React removed the tree

vars == <<resource, fetch, data, loading, filters, parses, errors, unmounted>>

InitialFilters == [region |-> Str(cAll), smoker |-> Str(cAll), sex |-> Str(cAll)]

\* a loading flag that starts cleared
InitialLoadingCleared == FALSE

InitialLoading == TRUE

Init ==
  /\ resource \in Documents
  /\ fetch = "pending"
  /\ data = <<>>
  /\ loading = InitialLoading
  /\ filters = InitialFilters
  /\ parses = 0
  /\ errors = 0
  /\ unmounted = FALSE

\* .then(text => { ... setData(parsed); setLoading(false); }) and the
\* render of the two batched updates.
LoadFulfilled ==
  /\ fetch = "pending"
  /\ fetch' = "fulfilled"
  /\ data' = Parse(Text(resource))
  /\ loading' = FALSE
  /\ parses' = parses + 1
  /\ unmounted' = RenderThrows(data', filters)
  /\ UNCHANGED <<resource, filters, errors>>

\* fetch or response.text() rejects:
\* .catch(err => console.error("Failed to load data", err))
LoadRejected ==
  /\ fetch = "pending"
  /\ fetch' = "rejected"
  /\ errors' = errors + 1
  /\ UNCHANGED <<resource, data, loading, filters, parses, unmounted>>

\* setFilters(prev => ({ ...prev, [key]: value }))
SetFilter(prev, key, value) == [prev EXCEPT ![key] = value]

\* a handler that stores the filtered subset back into data
HandleFilterChangeInPlace(key, value) ==
  /\ ~unmounted
  /\ filters' = SetFilter(filters, key, value)
  /\ data' = FilteredData(data, filters')
  /\ unmounted' = RenderThrows(data', filters')
  /\ UNCHANGED <<resource, fetch, loading, parses, errors>>

\* onChange of a select control: the value of the chosen option is the
\* string form of an entry of that control's option list.
HandleFilterChange(key, value) ==
  /\ ~unmounted
  /\ filters' = SetFilter(filters, key, value)
  /\ unmounted' = RenderThrows(data, filters')
  /\ UNCHANGED <<resource, fetch, data, loading, parses, errors>>

Next ==
  \/ LoadFulfilled
  \/ LoadRejected
  \/ \E key \in FilterKeys :
       LET options == Options(data, Column(key))
       IN  \E i \in 1..Len(options) :
             HandleFilterChange(key, Str(JSToString(options[i])))

Spec == Init /\ [][Next]_vars

\* The values a render computes from the current state.
filteredData == FilteredData(data, filters)
stats        == Stats(filteredData)
regionData   == RegionData(filteredData)
regions      == Options(data, cRegion)
smokers      == Options(data, cSmoker)
sexes        == Options(data, cSex)

-----------------------------------------------------------------------------
(* Properties *)

\* A record meets a selection when every dimension is 'all' or equals the
\* record's value of that column.
Matches(item, f) ==
  \A key \in FilterKeys : f[key] = Str(cAll) \/ Get(item, Column(key)) = f[key]

MatchingIndices == {i \in 1..Len(data) : Matches(data[i], filters)}

\* the k-th smallest matching index
NthMatching(k) ==
  CHOOSE i \in MatchingIndices : Cardinality({j \in MatchingIndices : j < i}) = k - 1

\* C1: once the fetch of the CSV resource has failed, the dataset is the
\* empty sequence and the loading flag is false.
C1_FailedLoadNotLoading ==
  fetch = "rejected" => (data = <<>> /\ loading = FALSE)

\* C2: filteredData is exactly the subsequence of data, in the original
\* order, of the records that meet the selection in every dimension; with
\* every dimension 'all' it is the whole of data.
C2_FilteredIsMatchingSubsequence ==
  /\ Len(filteredData) = Cardinality(MatchingIndices)
  /\ \A k \in 1..Len(filteredData) : filteredData[k] = data[NthMatching(k)]
  /\ (filters = InitialFilters => filteredData = data)

\* C2 witness: a selection on sex keeps the first and the last of three
\* records and drops the one between them.
C2_Witness ==
  /\ fetch = "fulfilled" /\ ~unmounted
  /\ filters.sex # Str(cAll)
  /\ Len(data) = 3 /\ Len(filteredData) = 2
  /\ filteredData[1] = data[1] /\ filteredData[2] = data[3]
  /\ data[2] # data[1] /\ data[2] # data[3]

\* C3: once the parsed dataset is stored, no derivation of a render raises
\* an error, whatever rows the resource held and whatever the selection.
C3_NoErrorRaised ==
  fetch = "fulfilled" => ~regionData.threw

\* C4: when the filtered subset is empty, count, avgCharge and smokerPct
\* are the number 0 (not NaN, not Infinity) and regionData has no entry.
C4_EmptySubsetAggregates ==
  Len(filteredData) = 0 =>
    /\ stats = [count |-> Num(0), avgCharge |-> Num(0), smokerPct |-> Num(0)]
    /\ regionData = [threw |-> FALSE, entries |-> <<>>]

\* C4 witness: a loaded, non-empty dataset with a selection no record meets.
C4_Witness ==
  /\ fetch = "fulfilled" /\ ~unmounted
  /\ Len(data) > 0 /\ filters # InitialFilters
  /\ Len(filteredData) = 0

\* the raw region values of the filtered subset
FilteredRegions == {Get(filteredData[i], cRegion) : i \in 1..Len(filteredData)}

RECURSIVE SumCounts(_)
SumCounts(groups) ==
  IF groups = <<>> THEN 0 ELSE groups[1].count.n + SumCounts(Tail(groups))

\* C5: regionData has exactly one entry per distinct raw region value of
\* the filtered subset, labelled by that value capitalized, and the group
\* counts of the entries sum to the filtered count.
C5_OneEntryPerRegion ==
  fetch = "fulfilled" =>
    /\ ~regionData.threw
    /\ Len(regionData.entries) = Cardinality(FilteredRegions)
    /\ \A r \in FilteredRegions :
         \E i \in 1..Len(regionData.entries) :
           regionData.entries[i].name = Capitalize(JSToString(r))
    /\ SumCounts(GroupBy(filteredData, <<>>)) = Len(filteredData)

\* the truthy values of a column of data
ColumnValues(name) == {v \in {Get(data[i], name) : i \in 1..Len(data)} : Truthy(v)}

\* C6: every option list is 'all' followed by the distinct truthy values of
\* its column in ascending order of their string forms, and no value
\* appears twice in the list.
C6_OptionLists ==
  \A name \in {cRegion, cSmoker, cSex} :
    LET options == Options(data, name)
    IN  /\ options[1] = Str(cAll)
        /\ {options[i] : i \in 2..Len(options)} = ColumnValues(name)
        /\ \A i \in 2..(Len(options) - 1) :
             StrLess(JSToString(options[i]), JSToString(options[i + 1]))
        /\ \A i, j \in 1..Len(options) : i # j => options[i] # options[j]

\* C7: setData is called at most once, and once the dataset is assigned no
\* step changes it.
C7_DataAssignedOnce ==
  [][parses' <= 1 /\ (parses = 1 => data' = data)]_vars

\* C7 witness: selections were changed after the load stored a dataset.
C7_Witness ==
  /\ parses = 1 /\ ~unmounted
  /\ Len(data) > 1
  /\ filters.region # Str(cAll) /\ filters.smoker # Str(cAll)

\* C8: when the loading flag is false the load has completed and data is
\* the parsed text of the resource.
C8_NotLoadingImpliesLoaded ==
  loading = FALSE =>
    (fetch = "fulfilled" /\ parses = 1 /\ data = Parse(Text(resource)))

\* C8 witness: the statistics of a loaded, non-empty dataset are presented.
C8_Witness ==
  loading = FALSE /\ ~unmounted /\ Len(data) > 0

\* A row of the resource whose line is blank: one cell of white space only.
IsBlankRow(row) ==
  Len(row) = 1 /\ \A j \in 1..Len(row[1]) : row[1][j] \in WhiteSpace

NonBlankRows == LET Keep(row) == ~IsBlankRow(row) IN SelectSeq(resource.rows, Keep)

\* the value a cell of a row is stored as
StoredCell(cell) ==
  LET u == Trim(cell) IN IF IsDigits(u) THEN Num(DigitsValue(u)) ELSE Str(u)

\* C9: the parsed dataset has one record per non-blank line after the
\* header, in line order; the record's value for the j-th header is the
\* stored form of the line's j-th cell, undefined when the line has fewer
\* cells; a document without data lines yields the empty sequence.
C9_OneRecordPerNonBlankLine ==
  fetch = "fulfilled" =>
    /\ Len(data) = Len(NonBlankRows)
    /\ \A k \in 1..Len(data) :
         /\ DOMAIN data[k] = {Trim(resource.header[j]) : j \in 1..Len(resource.header)}
         /\ \A j \in 1..Len(resource.header) :
              data[k][Trim(resource.header[j])] =
                IF j <= Len(NonBlankRows[k]) THEN StoredCell(NonBlankRows[k][j]) ELSE Undefined

\* C9 witness: a blank line between two data lines, the last of them with
\* fewer cells than the header, gave two records.
C9_Witness ==
  /\ fetch = "fulfilled"
  /\ Len(resource.rows) = 3
  /\ ~IsBlankRow(resource.rows[1]) /\ IsBlankRow(resource.rows[2])
  /\ Len(resource.rows[3]) < Len(resource.header)
  /\ Len(data) = 2
  /\ \E h \in DOMAIN data[2] : data[2][h] = Undefined

\* C10: every dimension of the selection is 'all' or a value that occurs
\* in that column of the dataset.
C10_SelectionIsColumnValue ==
  \A key \in FilterKeys :
    \/ filters[key] = Str(cAll)
    \/ \E i \in 1..Len(data) : Get(data[i], Column(key)) = filters[key]

====
